---- MODULE Spec2Model ----
(***************************************************************************)
(* Model of src/app.js: the three click handlers of the token page        *)
(* (saveTokenBtn, updateBioBtn, deleteTokenBtn), the DOM fields they read  *)
(* and write, and the requests whose responses they are awaiting.         *)
(*                                                                         *)
(* Text is a sequence of one-character strings.  A fixed literal of the    *)
(* source (the Arabic status and alert texts) is a one-element sequence    *)
(* holding a tag for the literal; the source text is quoted beside it.     *)
(*                                                                         *)
(* Each handler runs to its first await in one step (the click), and the   *)
(* rest of it runs in one step when the request settles: between           *)
(* `await fetch(...)` and `await r.json()` the handler reads and writes    *)
(* nothing, so the two resumptions are one step whose outcome says which   *)
(* of the two awaits rejected, or what body was parsed.                    *)
(***************************************************************************)
EXTENDS Integers, Sequences, FiniteSets

VARIABLES
    tokenIdText,     \* #tokenId.innerText: the session identifier as displayed
    step1Hidden,     \* #step1.classList contains 'hidden'
    dashboardHidden, \* #dashboard.classList contains 'hidden'
    saveResult,      \* #saveResult.innerText
    updateResult,    \* #updateResult.innerText
    displayBio,      \* #displayBio.innerText
    newBioValue,     \* #newBio.value, the bio input field
    inflight,        \* the suspended handlers, in the order they were triggered
    lastDialog,      \* the last modal dialog (confirm or alert) the user saw
    unhandled,       \* TRUE once a rejection has escaped a handler
    lastSubmittedBio \* history: the bio text of the update triggered last

vars == <<tokenIdText, step1Hidden, dashboardHidden, saveResult, updateResult,
          displayBio, newBioValue, inflight, lastDialog, unhandled,
          lastSubmittedBio>>

----------------------------------------------------------------------------
(* Bounds and input sets *)

\* At most this many handlers are suspended on a request at the same time.
MaxInFlight == 2

\* What the user types into #token and #label.
FieldTexts == { <<>>, <<" ", " ">>, <<" ", "a", " ", "b", " ">> }

\* What the user types into #newBio.
BioTexts == { <<>>, <<" ", "b">> }

\* The ids the service hands out.
Ids == {7, 42}

\* The error texts the service reports.
ErrorTexts == { <<>>, <<"d", "u", "p">> }

----------------------------------------------------------------------------
(* Literals of the source *)

apiBase == <<>>                                     \* ''
SavingText == <<"[saving...]">>                     \* 'جاري الحفظ...'
SavedText == <<"[saved. you can edit now.]">>       \* 'تم الحفظ. يمكنك الآن التعديل.'
SaveErrorPrefix == <<"[error: ]">>                  \* 'خطأ: '
ConnectionErrorText == <<"[connection error]">>     \* 'خطأ في الاتصال'
UpdatingText == <<"[updating...]">>                 \* 'جاري التحديث...'
UpdatedText == <<"[updated successfully.]">>        \* 'تم التحديث بنجاح.'
UpdateErrorPrefix == <<"[failed: ]">>               \* 'فشل: '
ConfirmPrompt == <<"[delete the token from the server?]">> \* 'هل تريد حذف هذا التوكن من الخادم؟'
DeletedAlert == <<"[deleted]">>                     \* 'تم الحذف'
DeleteFailedAlert == <<"[delete failed]">>          \* 'فشل الحذف'
ErrorAlert == <<"[error]">>                         \* 'خطأ'
DefaultLabel == <<"d", "e", "f", "a", "u", "l", "t">> \* 'default'


SaveUrl == apiBase \o <<"/api/save-token">>
UpdateUrl == apiBase \o <<"/api/update-bio">>
DeleteUrl == apiBase \o <<"/api/delete-token">>

\* A modal dialog and how the user left it (an alert can only be accepted).
NoDialog == [dialog |-> "none", text |-> <<>>, answer |-> TRUE]
Confirm(text, answer) == [dialog |-> "confirm", text |-> text, answer |-> answer]
Alert(text) == [dialog |-> "alert", text |-> text, answer |-> TRUE]

----------------------------------------------------------------------------
(* Pure functions *)

Whitespace == {" "}

RECURSIVE TrimStart(_)
TrimStart(s) ==
    IF s # <<>> /\ Head(s) \in Whitespace THEN TrimStart(Tail(s)) ELSE s

RECURSIVE TrimEnd(_)
TrimEnd(s) ==
    IF s # <<>> /\ s[Len(s)] \in Whitespace
    THEN TrimEnd(SubSeq(s, 1, Len(s) - 1))
    ELSE s

\* Trim that strips the leading whitespace only.
TrimLeadingOnly(s) == TrimStart(s)

\* String.prototype.trim
Trim(s) == TrimEnd(TrimStart(s))

DigitChars == <<"0", "1", "2", "3", "4", "5", "6", "7", "8", "9">>

\* The string a non-negative integer becomes when assigned to innerText.
RECURSIVE ToString(_)
ToString(n) ==
    IF n < 10 THEN <<DigitChars[n + 1]>>
    ELSE Append(ToString(n \div 10), DigitChars[(n % 10) + 1])

DigitValue(c) == CHOOSE d \in 0..9 : DigitChars[d + 1] = c

\* Number(text) for the texts #tokenId can hold: '' is 0, digits are their value.
RECURSIVE Number(_)
Number(text) ==
    IF text = <<>> THEN 0
    ELSE 10 * Number(SubSeq(text, 1, Len(text) - 1)) + DigitValue(text[Len(text)])

HasError(j) == "error" \in DOMAIN j

\* JSON.stringify of a response body, fields in the order ok, id, error.
JSONstringify(j) ==
    <<"{", "\"ok\":", IF j.ok THEN "true" ELSE "false">>
    \o (IF "id" \in DOMAIN j THEN <<",", "\"id\":">> \o ToString(j.id) ELSE <<>>)
    \o (IF HasError(j) THEN <<",", "\"error\":", "\"">> \o j.error \o <<"\"">> ELSE <<>>)
    \o <<"}">>

\* ErrorOrDump without the fallback: a body with no error field shows as undefined.
ErrorOnly(j) ==
    IF HasError(j) THEN j.error ELSE <<"undefined">>

\* j.error || JSON.stringify(j): an absent or empty error is falsy.
ErrorOrDump(j) ==
    IF HasError(j) /\ j.error # <<>> THEN j.error ELSE JSONstringify(j)

\* s with its i-th element removed.
RemoveAt(s, i) == SubSeq(s, 1, i - 1) \o SubSeq(s, i + 1, Len(s))

----------------------------------------------------------------------------
(* What a request can come back with *)

\* The error e a rejected await throws into the handler.
FetchRejected == [rejected |-> "fetch"]   \* `await fetch(...)` throws
JsonRejected == [rejected |-> "json"]     \* `await r.json()` throws
NullBody == [rejected |-> "null body"]    \* the body is JSON `null`: `j.ok` throws
Rejections == {FetchRejected, JsonRejected, NullBody}

FailureBodies ==
    {[ok |-> FALSE]} \cup {[ok |-> FALSE, error |-> e] : e \in ErrorTexts}

SaveBodies == {[ok |-> TRUE, id |-> n] : n \in Ids} \cup FailureBodies

PlainBodies == {[ok |-> TRUE]} \cup FailureBodies

----------------------------------------------------------------------------
(* The page *)

\* The document as the markup delivers it: the setup view, nothing filled in.
InitialDom ==
    [tokenIdText |-> <<>>, step1Hidden |-> FALSE, dashboardHidden |-> TRUE,
     saveResult |-> <<>>, updateResult |-> <<>>, displayBio |-> <<>>,
     newBioValue |-> <<>>]

\* The user can click a button or type into a field only while its view shows.
Exposed(element) ==
    IF element = "saveTokenBtn" THEN ~step1Hidden
    ELSE ~dashboardHidden

Init ==
    /\ tokenIdText = InitialDom.tokenIdText
    /\ step1Hidden = InitialDom.step1Hidden
    /\ dashboardHidden = InitialDom.dashboardHidden
    /\ saveResult = InitialDom.saveResult
    /\ updateResult = InitialDom.updateResult
    /\ displayBio = InitialDom.displayBio
    /\ newBioValue = InitialDom.newBioValue
    /\ inflight = <<>>
    /\ lastDialog = NoDialog
    /\ unhandled = FALSE
    /\ lastSubmittedBio = <<>>

\* location.reload(): the document is loaded afresh and the suspended handlers
\* of the old document are gone with it.
Reload ==
    /\ tokenIdText' = InitialDom.tokenIdText
    /\ step1Hidden' = InitialDom.step1Hidden
    /\ dashboardHidden' = InitialDom.dashboardHidden
    /\ saveResult' = InitialDom.saveResult
    /\ updateResult' = InitialDom.updateResult
    /\ displayBio' = InitialDom.displayBio
    /\ newBioValue' = InitialDom.newBioValue
    /\ inflight' = <<>>
    /\ unhandled' = FALSE
    /\ lastSubmittedBio' = <<>>

----------------------------------------------------------------------------
(* saveTokenBtn *)

\* SaveRequest without `|| 'default'`: a blank label is sent as the empty string.
SaveRequestNoDefault(tokenValue, labelValue) ==
    [url |-> SaveUrl, token |-> Trim(tokenValue), label |-> Trim(labelValue)]

\* The body of the save request: the trimmed token, and the trimmed label or,
\* when that is empty, 'default'.
SaveRequest(tokenValue, labelValue) ==
    LET token == Trim(tokenValue)
        label == IF Trim(labelValue) # <<>> THEN Trim(labelValue) ELSE DefaultLabel
    IN  [url |-> SaveUrl, token |-> token, label |-> label]

\* The click, up to `await fetch`.
SaveClick(tokenValue, labelValue) ==
    /\ Exposed("saveTokenBtn")
    /\ Len(inflight) < MaxInFlight
    /\ saveResult' = SavingText
    /\ inflight' = Append(inflight, SaveRequest(tokenValue, labelValue))
    /\ UNCHANGED <<tokenIdText, step1Hidden, dashboardHidden, updateResult,
                   displayBio, newBioValue, lastDialog, unhandled,
                   lastSubmittedBio>>

\* SaveOk without the two classList calls: the view is left as it was.
SaveOkKeepsView(i, j) ==
    /\ saveResult' = SavedText
    /\ tokenIdText' = ToString(j.id)
    /\ inflight' = RemoveAt(inflight, i)
    /\ UNCHANGED <<step1Hidden, dashboardHidden, updateResult, displayBio,
                   newBioValue, lastDialog, unhandled,
                   lastSubmittedBio>>

\* SaveOk without the assignment to #tokenId.
SaveOkNoId(i, j) ==
    /\ saveResult' = SavedText
    /\ step1Hidden' = TRUE
    /\ dashboardHidden' = FALSE
    /\ inflight' = RemoveAt(inflight, i)
    /\ UNCHANGED <<tokenIdText, updateResult, displayBio, newBioValue,
                   lastDialog, unhandled, lastSubmittedBio>>

\* if (j.ok) { ... }
SaveOk(i, j) ==
    /\ saveResult' = SavedText
    /\ tokenIdText' = ToString(j.id)
    /\ step1Hidden' = TRUE
    /\ dashboardHidden' = FALSE
    /\ inflight' = RemoveAt(inflight, i)
    /\ UNCHANGED <<updateResult, displayBio, newBioValue, lastDialog, unhandled,
                   lastSubmittedBio>>

\* else { ... }
SaveNotOk(i, j) ==
    /\ saveResult' = SaveErrorPrefix \o ErrorOrDump(j)
    /\ inflight' = RemoveAt(inflight, i)
    /\ UNCHANGED <<tokenIdText, step1Hidden, dashboardHidden, updateResult,
                   displayBio, newBioValue, lastDialog, unhandled,
                   lastSubmittedBio>>

\* SaveCatch that logs and rethrows: the status text stays and e escapes.
SaveCatchRethrows(i, e) ==
    /\ unhandled' = TRUE
    /\ inflight' = RemoveAt(inflight, i)
    /\ UNCHANGED <<tokenIdText, step1Hidden, dashboardHidden, saveResult,
                   updateResult, displayBio, newBioValue, lastDialog,
                   lastSubmittedBio>>

\* catch (e) { ... }
SaveCatch(i, e) ==
    /\ saveResult' = ConnectionErrorText
    /\ inflight' = RemoveAt(inflight, i)
    /\ UNCHANGED <<tokenIdText, step1Hidden, dashboardHidden, updateResult,
                   displayBio, newBioValue, lastDialog, unhandled,
                   lastSubmittedBio>>

\* The i-th suspended handler is a save and its request settles with outcome.
SaveSettle(i, outcome) ==
    /\ i \in 1..Len(inflight)
    /\ inflight[i].url = SaveUrl
    /\ IF outcome \in Rejections THEN SaveCatch(i, outcome)
       ELSE IF outcome.ok THEN SaveOk(i, outcome)
       ELSE SaveNotOk(i, outcome)

----------------------------------------------------------------------------
(* updateBioBtn *)

\* The user edits the bio field.
TypeNewBio(text) ==
    /\ Exposed("newBio")
    /\ text # newBioValue
    /\ newBioValue' = text
    /\ UNCHANGED <<tokenIdText, step1Hidden, dashboardHidden, saveResult,
                   updateResult, displayBio, inflight, lastDialog, unhandled,
                   lastSubmittedBio>>

\* UpdateRequest that reads the identifier from an element that holds no text.
UpdateRequestNoSession ==
    [url |-> UpdateUrl, id |-> Number(<<>>), newBio |-> newBioValue]

\* The body of the update request; id and newBio are also the handler's locals.
UpdateRequest ==
    [url |-> UpdateUrl, id |-> Number(tokenIdText), newBio |-> newBioValue]

\* UpdateClick that aborts the updates still in flight before sending its own.
UpdateClickAbortsPrior ==
    /\ Exposed("updateBioBtn")
    /\ Len(inflight) < MaxInFlight
    /\ updateResult' = UpdatingText
    /\ lastSubmittedBio' = newBioValue
    /\ inflight' = Append(SelectSeq(inflight, LAMBDA t : t.url # UpdateUrl),
                          UpdateRequest)
    /\ UNCHANGED <<tokenIdText, step1Hidden, dashboardHidden, saveResult,
                   displayBio, newBioValue, lastDialog, unhandled>>

\* The click, up to `await fetch`.
UpdateClick ==
    /\ Exposed("updateBioBtn")
    /\ Len(inflight) < MaxInFlight
    /\ updateResult' = UpdatingText
    /\ lastSubmittedBio' = newBioValue
    /\ inflight' = Append(inflight, UpdateRequest)
    /\ UNCHANGED <<tokenIdText, step1Hidden, dashboardHidden, saveResult,
                   displayBio, newBioValue, lastDialog, unhandled>>

\* UpdateOk that reads the bio field again when the response arrives.
UpdateOkReadsField(i, j) ==
    /\ updateResult' = UpdatedText
    /\ displayBio' = newBioValue
    /\ inflight' = RemoveAt(inflight, i)
    /\ UNCHANGED <<tokenIdText, step1Hidden, dashboardHidden, saveResult,
                   newBioValue, lastDialog, unhandled,
                   lastSubmittedBio>>

\* UpdateOk that leaves the displayed bio alone while an update triggered
\* later is still in flight.
UpdateOkUnlessSuperseded(i, j) ==
    /\ updateResult' = UpdatedText
    /\ displayBio' = IF \E k \in (i + 1)..Len(inflight) : inflight[k].url = UpdateUrl
                     THEN displayBio
                     ELSE inflight[i].newBio
    /\ inflight' = RemoveAt(inflight, i)
    /\ UNCHANGED <<tokenIdText, step1Hidden, dashboardHidden, saveResult,
                   newBioValue, lastDialog, unhandled, lastSubmittedBio>>

\* if (j.ok) { ... }
UpdateOk(i, j) ==
    /\ updateResult' = UpdatedText
    /\ displayBio' = inflight[i].newBio
    /\ inflight' = RemoveAt(inflight, i)
    /\ UNCHANGED <<tokenIdText, step1Hidden, dashboardHidden, saveResult,
                   newBioValue, lastDialog, unhandled,
                   lastSubmittedBio>>

\* UpdateNotOk that also sends the user back to the setup view.
UpdateNotOkBackToSetup(i, j) ==
    /\ updateResult' = UpdateErrorPrefix \o ErrorOrDump(j)
    /\ step1Hidden' = FALSE
    /\ dashboardHidden' = TRUE
    /\ inflight' = RemoveAt(inflight, i)
    /\ UNCHANGED <<tokenIdText, saveResult, displayBio, newBioValue, lastDialog,
                   unhandled,
                   lastSubmittedBio>>

\* else { ... }
UpdateNotOk(i, j) ==
    /\ updateResult' = UpdateErrorPrefix \o ErrorOrDump(j)
    /\ inflight' = RemoveAt(inflight, i)
    /\ UNCHANGED <<tokenIdText, step1Hidden, dashboardHidden, saveResult,
                   displayBio, newBioValue, lastDialog, unhandled,
                   lastSubmittedBio>>

\* UpdateCatch that leaves the status text as it is.
UpdateCatchKeepsStatus(i, e) ==
    /\ inflight' = RemoveAt(inflight, i)
    /\ UNCHANGED <<tokenIdText, step1Hidden, dashboardHidden, saveResult,
                   updateResult, displayBio, newBioValue, lastDialog,
                   unhandled, lastSubmittedBio>>

\* catch (e) { ... }
UpdateCatch(i, e) ==
    /\ updateResult' = ConnectionErrorText
    /\ inflight' = RemoveAt(inflight, i)
    /\ UNCHANGED <<tokenIdText, step1Hidden, dashboardHidden, saveResult,
                   displayBio, newBioValue, lastDialog, unhandled,
                   lastSubmittedBio>>

\* The i-th suspended handler is an update and its request settles with outcome.
UpdateSettle(i, outcome) ==
    /\ i \in 1..Len(inflight)
    /\ inflight[i].url = UpdateUrl
    /\ IF outcome \in Rejections THEN UpdateCatch(i, outcome)
       ELSE IF outcome.ok THEN UpdateOk(i, outcome)
       ELSE UpdateNotOk(i, outcome)

----------------------------------------------------------------------------
(* deleteTokenBtn *)

\* The body of the delete request.
DeleteRequest == [url |-> DeleteUrl, id |-> Number(tokenIdText)]

\* DeleteDeclined without the `return`: the request goes out all the same.
DeleteDeclinedSends ==
    /\ Len(inflight) < MaxInFlight
    /\ lastDialog' = Confirm(ConfirmPrompt, FALSE)
    /\ inflight' = Append(inflight, DeleteRequest)
    /\ UNCHANGED <<tokenIdText, step1Hidden, dashboardHidden, saveResult,
                   updateResult, displayBio, newBioValue, unhandled,
                   lastSubmittedBio>>

\* if (!confirm(...)) return;
DeleteDeclined ==
    /\ lastDialog' = Confirm(ConfirmPrompt, FALSE)
    /\ UNCHANGED <<tokenIdText, step1Hidden, dashboardHidden, saveResult,
                   updateResult, displayBio, newBioValue, inflight, unhandled,
                   lastSubmittedBio>>

\* The confirmed click, up to `await fetch`.
DeleteConfirmed ==
    /\ Len(inflight) < MaxInFlight
    /\ lastDialog' = Confirm(ConfirmPrompt, TRUE)
    /\ inflight' = Append(inflight, DeleteRequest)
    /\ UNCHANGED <<tokenIdText, step1Hidden, dashboardHidden, saveResult,
                   updateResult, displayBio, newBioValue, unhandled,
                   lastSubmittedBio>>

\* The click: confirm() blocks the page until the user answers.
DeleteClick(answer) ==
    /\ Exposed("deleteTokenBtn")
    /\ IF answer THEN DeleteConfirmed ELSE DeleteDeclined

\* DeleteOk without location.reload(): the alert is all that happens.
DeleteOkNoReload(i, j) ==
    /\ lastDialog' = Alert(DeletedAlert)
    /\ inflight' = RemoveAt(inflight, i)
    /\ UNCHANGED <<tokenIdText, step1Hidden, dashboardHidden, saveResult,
                   updateResult, displayBio, newBioValue, unhandled,
                   lastSubmittedBio>>

\* if (j.ok) { alert(...); location.reload(); }
DeleteOk(i, j) ==
    /\ lastDialog' = Alert(DeletedAlert)
    /\ Reload

\* DeleteNotOk that puts the response's error into the alert.
DeleteNotOkShowsError(i, j) ==
    /\ lastDialog' = Alert(DeleteFailedAlert \o ErrorOrDump(j))
    /\ inflight' = RemoveAt(inflight, i)
    /\ UNCHANGED <<tokenIdText, step1Hidden, dashboardHidden, saveResult,
                   updateResult, displayBio, newBioValue, unhandled,
                   lastSubmittedBio>>

\* else alert(...)
DeleteNotOk(i, j) ==
    /\ lastDialog' = Alert(DeleteFailedAlert)
    /\ inflight' = RemoveAt(inflight, i)
    /\ UNCHANGED <<tokenIdText, step1Hidden, dashboardHidden, saveResult,
                   updateResult, displayBio, newBioValue, unhandled,
                   lastSubmittedBio>>

\* DeleteCatch copied from the update handler: it writes the update status
\* text instead of raising an alert.
DeleteCatchWritesStatus(i, e) ==
    /\ updateResult' = ConnectionErrorText
    /\ inflight' = RemoveAt(inflight, i)
    /\ UNCHANGED <<tokenIdText, step1Hidden, dashboardHidden, saveResult,
                   displayBio, newBioValue, lastDialog, unhandled,
                   lastSubmittedBio>>

\* catch (e) { alert(...) }
DeleteCatch(i, e) ==
    /\ lastDialog' = Alert(ErrorAlert)
    /\ inflight' = RemoveAt(inflight, i)
    /\ UNCHANGED <<tokenIdText, step1Hidden, dashboardHidden, saveResult,
                   updateResult, displayBio, newBioValue, unhandled,
                   lastSubmittedBio>>

\* The i-th suspended handler is a delete and its request settles with outcome.
DeleteSettle(i, outcome) ==
    /\ i \in 1..Len(inflight)
    /\ inflight[i].url = DeleteUrl
    /\ IF outcome \in Rejections THEN DeleteCatch(i, outcome)
       ELSE IF outcome.ok THEN DeleteOk(i, outcome)
       ELSE DeleteNotOk(i, outcome)

----------------------------------------------------------------------------
(* The specification *)

Next ==
    \/ \E tokenValue \in FieldTexts, labelValue \in FieldTexts :
           SaveClick(tokenValue, labelValue)
    \/ \E i \in 1..MaxInFlight, outcome \in Rejections \cup SaveBodies :
           SaveSettle(i, outcome)
    \/ \E text \in BioTexts : TypeNewBio(text)
    \/ UpdateClick
    \/ \E i \in 1..MaxInFlight, outcome \in Rejections \cup PlainBodies :
           UpdateSettle(i, outcome)
    \/ \E answer \in BOOLEAN : DeleteClick(answer)
    \/ \E i \in 1..MaxInFlight, outcome \in Rejections \cup PlainBodies :
           DeleteSettle(i, outcome)

Spec == Init /\ [][Next]_vars

\* The awaited request that has been in flight longest settles: its promise
\* resolves or rejects and the handler suspended on it resumes.
SettleOldest ==
    \/ \E outcome \in Rejections \cup SaveBodies : SaveSettle(1, outcome)
    \/ \E outcome \in Rejections \cup PlainBodies : UpdateSettle(1, outcome)
    \/ \E outcome \in Rejections \cup PlainBodies : DeleteSettle(1, outcome)

\* The handlers on a network where no request stays unanswered for ever: every
\* await of a fetch eventually resolves or rejects.
FairSpec == Spec /\ WF_vars(SettleOldest)

----------------------------------------------------------------------------
(* Vocabulary of the properties *)

InSetup == ~step1Hidden /\ dashboardHidden
InDashboard == step1Hidden /\ ~dashboardHidden

\* The session identifier is unset while #tokenId is empty.
SessionUnset == tokenIdText = <<>>

\* text holds e as a contiguous part.
Contains(text, e) ==
    \E k \in 1..(Len(text) - Len(e) + 1) : SubSeq(text, k, k + Len(e) - 1) = e

Saves == {i \in 1..Len(inflight) : inflight[i].url = SaveUrl}
Updates == {i \in 1..Len(inflight) : inflight[i].url = UpdateUrl}
Deletes == {i \in 1..Len(inflight) : inflight[i].url = DeleteUrl}

OkSaveBodies == {j \in SaveBodies : j.ok}
ErrorBodies == {j \in FailureBodies : HasError(j) /\ j.error # <<>>}

\* A save response with ok == true is handled in this step.
SaveOkStep == \E i \in Saves, j \in OkSaveBodies : SaveSettle(i, j)

\* A delete response with ok == true is handled in this step (the page reloads).
DeleteOkStep == \E i \in Deletes : DeleteSettle(i, [ok |-> TRUE])

\* A request is transmitted in this step.
Sends == Len(inflight') = Len(inflight) + 1
Sent == inflight'[Len(inflight')]

\* The page state a handler may write, apart from its own status text.
session == <<tokenIdText, step1Hidden, dashboardHidden, displayBio>>

----------------------------------------------------------------------------
(* C1 *)

\* C1 (as stated): within one page session #tokenId is assigned at most once:
\* a save response with ok == true always finds the session identifier unset,
\* and nothing but such a response (or the reload ending the session) changes it.
C1_TokenIdWrittenOnce ==
    [][ /\ SaveOkStep => SessionUnset
        /\ tokenIdText' # tokenIdText => SaveOkStep \/ DeleteOkStep ]_vars

----------------------------------------------------------------------------
(* C2 *)

\* C2: handling a save response {ok: true, id: n} leaves the session identifier
\* equal to n and the page in the dashboard view; the page enters the dashboard
\* view only in such a step, and once there stays there until a reload, so a
\* page session sees the setup -> dashboard transition at most once.
C2_SaveSuccessOnce ==
    [][ /\ \A i \in Saves, j \in OkSaveBodies :
              SaveSettle(i, j) => Number(tokenIdText') = j.id /\ InDashboard'
        /\ (~InDashboard /\ InDashboard') => (InSetup /\ SaveOkStep)
        /\ (InDashboard /\ ~InDashboard') => DeleteOkStep ]_vars

\* A second save response with ok == true has arrived in the dashboard view: the
\* update still in flight was sent under the first identifier.
C2_Witness ==
    /\ InDashboard
    /\ saveResult = SavedText
    /\ tokenIdText = ToString(42)
    /\ \E i \in Updates : inflight[i].id = 7

----------------------------------------------------------------------------
(* C3 *)

\* C3 (as stated): handling a save response {ok: false, error: e} with e
\* non-empty leaves the page in the setup view, the session identifier as it
\* was, and a save status text that contains e.
C3_SaveFailureInSetup ==
    [][ \A i \in Saves, j \in ErrorBodies :
            SaveSettle(i, j) =>
                /\ InSetup'
                /\ tokenIdText' = tokenIdText
                /\ Contains(saveResult', j.error) ]_vars

----------------------------------------------------------------------------
(* C4 *)

\* C4: when the user declines the delete confirmation, no request is sent and
\* nothing of the page changes.
C4_DeclinedDeleteIsNoOp ==
    [][ (lastDialog' # lastDialog /\ lastDialog' = Confirm(ConfirmPrompt, FALSE)) =>
            UNCHANGED <<tokenIdText, step1Hidden, dashboardHidden, saveResult,
                        updateResult, displayBio, newBioValue, inflight,
                        unhandled>> ]_vars

\* The user has declined a delete in a session that has an identifier and a bio.
C4_Witness ==
    /\ lastDialog = Confirm(ConfirmPrompt, FALSE)
    /\ InDashboard
    /\ ~SessionUnset
    /\ displayBio # <<>>
    /\ inflight = <<>>

----------------------------------------------------------------------------
(* C5 *)

\* C5: handling a delete response with ok == true reloads the page: afterwards
\* the session identifier is unset, the page is in the setup view, and no
\* handler suspended before the reload is left to resume.
C5_DeleteSuccessReloads ==
    [][ DeleteOkStep =>
            /\ SessionUnset'
            /\ InSetup'
            /\ inflight' = <<>>
            /\ lastDialog' = Alert(DeletedAlert) ]_vars

\* The page after a successful delete.
C5_Witness ==
    /\ lastDialog = Alert(DeletedAlert)
    /\ InSetup
    /\ SessionUnset
    /\ inflight = <<>>

----------------------------------------------------------------------------
(* C6 *)

\* C6: whichever await of a save, update or delete rejects, and whatever it
\* rejects with, the handler catches it: the user sees the operation's fixed
\* text (status text for save and update, alert for delete), nothing escapes
\* the handler, and the session identifier, the view and the displayed bio stay.
C6_FailuresAreCaught ==
    [][ \A e \in Rejections :
          /\ \A i \in Saves : SaveSettle(i, e) =>
                 saveResult' = ConnectionErrorText /\ ~unhandled' /\ UNCHANGED session
          /\ \A i \in Updates : UpdateSettle(i, e) =>
                 updateResult' = ConnectionErrorText /\ ~unhandled' /\ UNCHANGED session
          /\ \A i \in Deletes : DeleteSettle(i, e) =>
                 lastDialog' = Alert(ErrorAlert) /\ ~unhandled' /\ UNCHANGED session
      ]_vars

\* All three operations have failed in transport.
C6_Witness ==
    /\ saveResult = ConnectionErrorText
    /\ updateResult = ConnectionErrorText
    /\ lastDialog = Alert(ErrorAlert)
    /\ ~unhandled

----------------------------------------------------------------------------
(* C7 *)

\* C7: an update request carries the bio field's text as it is at the click,
\* untrimmed, and handling that request's response with ok == true sets the
\* displayed bio to exactly that text, whatever the field holds by then.
C7_DisplayedBioIsSubmittedBio ==
    [][ /\ (Sends /\ Sent.url = UpdateUrl) => Sent.newBio = newBioValue
        /\ \A i \in Updates :
              UpdateSettle(i, [ok |-> TRUE]) => displayBio' = inflight[i].newBio
      ]_vars

\* An update submitted with " b" has succeeded; the field has been cleared.
C7_Witness ==
    /\ updateResult = UpdatedText
    /\ displayBio = <<" ", "b">>
    /\ newBioValue = <<>>
    /\ Updates = {}

----------------------------------------------------------------------------
(* C8 *)

\* C8: every update or delete request is sent with the identifier #tokenId
\* shows at the click, an identifier the service handed out; the identifier is
\* never unset at that moment, and nothing but a save response with ok == true
\* (or the reload) ever changes it.
C8_RequestsCarrySessionId ==
    [][ /\ (Sends /\ Sent.url \in {UpdateUrl, DeleteUrl}) =>
              /\ ~SessionUnset
              /\ ToString(Sent.id) = tokenIdText
              /\ Sent.id \in Ids
        /\ tokenIdText' # tokenIdText => SaveOkStep \/ DeleteOkStep ]_vars

\* An update and a delete are in flight, both under the session's identifier.
C8_Witness ==
    /\ tokenIdText = ToString(42)
    /\ \E i \in Updates : inflight[i].id = 42
    /\ \E i \in Deletes : inflight[i].id = 42

----------------------------------------------------------------------------
(* C9 *)

\* What JSON.stringify gives for the two failure bodies without an error text.
DumpNoError == <<"{", "\"ok\":", "false", "}">>
DumpEmptyError == <<"{", "\"ok\":", "false", ",", "\"error\":", "\"", "\"", "}">>

\* What the status text shows after the prefix for failure body j.
ExpectedDetail(j) ==
    IF ~HasError(j) THEN DumpNoError
    ELSE IF j.error = <<>> THEN DumpEmptyError
    ELSE j.error

\* C9: handling a save or update response with ok == false sets the status text
\* to the operation's error prefix followed by the error text when there is a
\* non-empty one, and by the stringified body otherwise; it is never the bare
\* prefix.
C9_FailureMessage ==
    [][ \A j \in FailureBodies :
          /\ \A i \in Saves : SaveSettle(i, j) =>
                 /\ saveResult' = SaveErrorPrefix \o ExpectedDetail(j)
                 /\ saveResult' # SaveErrorPrefix
          /\ \A i \in Updates : UpdateSettle(i, j) =>
                 /\ updateResult' = UpdateErrorPrefix \o ExpectedDetail(j)
                 /\ updateResult' # UpdateErrorPrefix
      ]_vars

\* A save has failed with no error field and an update with the error "dup".
C9_Witness ==
    /\ saveResult = SaveErrorPrefix \o DumpNoError
    /\ updateResult = UpdateErrorPrefix \o <<"d", "u", "p">>

----------------------------------------------------------------------------
(* C10 *)

\* C10: handling a delete response with ok == false shows the fixed failure
\* alert whatever the body says, and nothing else happens: no reload (the other
\* suspended handlers stay), the page stays in the dashboard view and the
\* session identifier, the status texts and the bio stay as they were.
C10_DeleteFailureAlertOnly ==
    [][ \A i \in Deletes, j \in FailureBodies :
            DeleteSettle(i, j) =>
                /\ lastDialog' = Alert(DeleteFailedAlert)
                /\ inflight' = RemoveAt(inflight, i)
                /\ InDashboard /\ InDashboard'
                /\ ~SessionUnset'
                /\ UNCHANGED <<tokenIdText, step1Hidden, dashboardHidden,
                               saveResult, updateResult, displayBio,
                               newBioValue, unhandled>> ]_vars

\* A delete has failed while an update was in flight, which still is.
C10_Witness ==
    /\ lastDialog = Alert(DeleteFailedAlert)
    /\ InDashboard
    /\ ~SessionUnset
    /\ Updates # {}
    /\ Deletes = {}

----------------------------------------------------------------------------
(* C11 *)

\* text consists of whitespace only (the empty text included).
Blank(text) == \A k \in 1..Len(text) : text[k] \in Whitespace

\* r is text without its surrounding whitespace: text is r between two runs of
\* whitespace, and r neither starts nor ends with whitespace.
IsTrimOf(r, text) ==
    /\ \E a \in 0..Len(text) :
          /\ a + Len(r) <= Len(text)
          /\ SubSeq(text, a + 1, a + Len(r)) = r
          /\ Blank(SubSeq(text, 1, a))
          /\ Blank(SubSeq(text, a + Len(r) + 1, Len(text)))
    /\ r # <<>> => (r[1] \notin Whitespace /\ r[Len(r)] \notin Whitespace)

\* C11: a save click with a blank label field (empty or whitespace only) sends
\* the label 'default'; with any other label field it sends the field's text
\* without its surrounding whitespace.
C11_LabelDefaultsWhenBlank ==
    [][ \A tokenValue \in FieldTexts, labelValue \in FieldTexts :
            SaveClick(tokenValue, labelValue) =>
                /\ Sends
                /\ Sent.url = SaveUrl
                /\ IF Blank(labelValue) THEN Sent.label = DefaultLabel
                   ELSE IsTrimOf(Sent.label, labelValue) ]_vars

\* Two saves are in flight: one sent with a blank label, one with " a b ".
C11_Witness ==
    /\ \E i \in Saves : inflight[i].label = DefaultLabel
    /\ \E i \in Saves : inflight[i].label = <<"a", " ", "b">>

----------------------------------------------------------------------------
(* C12 *)

\* C12: a save click sends the token field's text without its surrounding
\* whitespace, and a blank token field does not stop the click: whenever the
\* save button can be clicked at all, it can be clicked with a blank token,
\* and the request then carries the empty token.
C12_TokenIsTrimmed ==
    [][ /\ \A tokenValue \in FieldTexts, labelValue \in FieldTexts :
              SaveClick(tokenValue, labelValue) =>
                  /\ Sends
                  /\ Sent.url = SaveUrl
                  /\ IsTrimOf(Sent.token, tokenValue)
                  /\ Blank(tokenValue) => Sent.token = <<>>
        /\ \A tokenValue \in FieldTexts :
              (ENABLED SaveClick(<<"a">>, <<>>)) => ENABLED SaveClick(tokenValue, <<>>)
      ]_vars

\* Two saves are in flight: one sent with a blank token, one with " a b ".
C12_Witness ==
    /\ \E i \in Saves : inflight[i].token = <<>>
    /\ \E i \in Saves : inflight[i].token = <<"a", " ", "b">>

----------------------------------------------------------------------------
(* C13 *)

\* C13: neither an update click nor any outcome of an update (ok, not ok,
\* rejected) changes the view or the session identifier; the page leaves the
\* dashboard view only when a delete response with ok == true reloads it.
C13_UpdateKeepsViewAndSession ==
    [][ /\ \A i \in Updates, outcome \in Rejections \cup PlainBodies :
              UpdateSettle(i, outcome) =>
                  UNCHANGED <<tokenIdText, step1Hidden, dashboardHidden>>
        /\ UpdateClick => UNCHANGED <<tokenIdText, step1Hidden, dashboardHidden>>
        /\ (InDashboard /\ ~InDashboard') => (DeleteOkStep /\ InSetup') ]_vars

\* An update has failed with a body that has no error field; the page is still
\* the dashboard of the same session.
C13_Witness ==
    /\ updateResult = UpdateErrorPrefix \o DumpNoError
    /\ InDashboard
    /\ tokenIdText = ToString(7)

----------------------------------------------------------------------------
(* C14 *)

\* A click that sends a request happens in this step.
SendingClick ==
    \/ \E tokenValue \in FieldTexts, labelValue \in FieldTexts :
           SaveClick(tokenValue, labelValue)
    \/ UpdateClick
    \/ DeleteClick(TRUE)

\* The i-th suspended handler resumes in this step.
Resumes(i) ==
    \/ \E outcome \in Rejections \cup SaveBodies : SaveSettle(i, outcome)
    \/ \E outcome \in Rejections \cup PlainBodies :
           UpdateSettle(i, outcome) \/ DeleteSettle(i, outcome)

\* C14: a sending click adds exactly one request and leaves every request
\* already in flight in place; a declined delete adds none; a handler that
\* resumes takes only its own request away and sends nothing again (unless it
\* reloads the page); nothing else adds or removes a request; and every
\* suspended handler can still resume.
C14_OneRequestPerClick ==
    [][ /\ SendingClick => inflight' = Append(inflight, Sent)
        /\ DeleteClick(FALSE) => inflight' = inflight
        /\ \A i \in 1..Len(inflight) :
              Resumes(i) => (inflight' = RemoveAt(inflight, i) \/ DeleteOkStep)
        /\ inflight' # inflight =>
              (SendingClick \/ \E i \in 1..Len(inflight) : Resumes(i))
        /\ \A i \in 1..Len(inflight) : ENABLED Resumes(i) ]_vars

\* Two updates are in flight at the same time.
C14_Witness == Cardinality(Updates) = 2

----------------------------------------------------------------------------
(* C15 *)

\* C15: the save status text leaves 'saving...' only in a step that settles a
\* save or reloads the page, and the update status text leaves 'updating...'
\* only in a step that settles an update or reloads the page: no timer or
\* other step ever replaces the in-progress text.
C15_InProgressUntilSettled ==
    [][ /\ (saveResult = SavingText /\ saveResult' # SavingText) =>
              \/ \E i \in Saves, outcome \in Rejections \cup SaveBodies :
                     SaveSettle(i, outcome)
              \/ DeleteOkStep
        /\ (updateResult = UpdatingText /\ updateResult' # UpdatingText) =>
              \/ \E i \in Updates, outcome \in Rejections \cup PlainBodies :
                     UpdateSettle(i, outcome)
              \/ DeleteOkStep ]_vars

\* An update is still in progress although the user has edited the bio field
\* and seen a delete fail since.
C15_Witness ==
    /\ updateResult = UpdatingText
    /\ Cardinality(Updates) = 1
    /\ \E i \in Updates : inflight[i].newBio # newBioValue
    /\ lastDialog \in {Alert(DeleteFailedAlert), Alert(ErrorAlert)}

----------------------------------------------------------------------------
(* C16 *)

\* The i-th suspended handler is the only update in flight and the response of
\* another update, in flight together with it, has been handled with ok == true
\* since it was triggered (the status text has gone from 'updating...' to
\* 'updated'); now its own response arrives with ok == true.
SecondOfTwoOk(i) ==
    /\ Updates = {i}
    /\ updateResult = UpdatedText
    /\ UpdateSettle(i, [ok |-> TRUE])

\* C16 (as stated): when the responses of two updates that were in flight
\* together have both been handled with ok == true, the displayed bio is the
\* bio text of the update triggered last, whatever the order of the responses.
C16_LastTriggeredWins ==
    [][ \A i \in 1..Len(inflight) :
            SecondOfTwoOk(i) => displayBio' = lastSubmittedBio ]_vars

\* C16 (amended): each of the two responses, when handled with ok == true,
\* sets the displayed bio to the bio text of its own update and leaves the
\* other update in flight; so after both, the displayed bio is the bio text of
\* the update whose response was handled last.
C16_LastHandledWins ==
    [][ \A i \in Updates :
          /\ (Cardinality(Updates) >= 2 /\ UpdateSettle(i, [ok |-> TRUE])) =>
                 /\ displayBio' = inflight[i].newBio
                 /\ inflight' = RemoveAt(inflight, i)
          /\ SecondOfTwoOk(i) => displayBio' = inflight[i].newBio ]_vars

\* Both responses have been handled, the later-triggered update's first: the
\* displayed bio is not the bio text submitted last.
C16_Witness ==
    /\ Updates = {}
    /\ updateResult = UpdatedText
    /\ displayBio # lastSubmittedBio
    /\ InDashboard

----------------------------------------------------------------------------
(* C17 *)

\* C17: in every reachable state the page is in exactly one of the two views,
\* and it is in the dashboard view exactly when the session identifier is set
\* (in the setup view exactly when it is unset).
C17_ViewAgreesWithSession ==
    /\ InSetup \/ InDashboard
    /\ InDashboard <=> ~SessionUnset
    /\ InSetup <=> SessionUnset

\* A session set up again after a successful delete reloaded the page.
C17_Witness ==
    /\ InDashboard
    /\ tokenIdText = ToString(42)
    /\ lastDialog = Alert(DeletedAlert)

----------------------------------------------------------------------------
(* C18 *)

\* While no save is in flight #saveResult is not the in-progress text, and
\* likewise for updates and #updateResult.
NotStuck ==
    /\ Saves = {} => saveResult # SavingText
    /\ Updates = {} => updateResult # UpdatingText

\* The page reloads while a save or an update is still in flight.
DiscardsPending == DeleteOkStep /\ Saves \cup Updates # {}

\* C18 (as stated): on a network that answers every request, every triggered
\* save and update is eventually completed by its own handler (no request
\* stays in flight for ever: the oldest one is handled again and again, or
\* again and again nothing is in flight; and none is dropped unhandled), and while no save
\* (update) is in flight the save (update) status is not the in-progress text.
C18_EveryTriggeredCompletes ==
    /\ []NotStuck
    /\ []<><<SettleOldest>>_vars \/ []<>(inflight = <<>>)
    /\ [][~DiscardsPending]_vars

\* C18 (amended): on a network that answers every request, every triggered
\* save and update eventually is handled or is discarded by the reload of a
\* successful delete: no request stays in flight for ever, and an in-progress
\* status text is always eventually replaced; while no save (update) is in
\* flight the save (update) status is not the in-progress text.
C18_CompletesOrDiscarded ==
    /\ []NotStuck
    /\ []<><<SettleOldest>>_vars \/ []<>(inflight = <<>>)
    /\ (saveResult = SavingText) ~> (saveResult # SavingText)
    /\ (updateResult = UpdatingText) ~> (updateResult # UpdatingText)

\* A stale response has just been handled after a newer one of its kind: no
\* update is left in flight and the status shows the failure of the last
\* response handled.
C18_Witness ==
    /\ Updates = {}
    /\ updateResult = ConnectionErrorText
    /\ displayBio # lastSubmittedBio
    /\ InDashboard

====
